---- MODULE Spec2Model ----
(***************************************************************************)
(* Model of src/app.py: the Streamlit document-to-Markdown converter.      *)
(*                                                                         *)
(* One session is modelled.  The session state holds the result ledger     *)
(* (st.session_state.conversion_stats); the upload widget holds the        *)
(* current batch (uploaded_files).  Every user interaction reruns main()   *)
(* from the top.  main() is modelled step by step (the dedup check, the    *)
(* four steps of DocumentConverter.process_file, the recording of the      *)
(* outcome, the two views), so that the life of a temporary file and the   *)
(* position of the driver in the batch are visible in the state.           *)
(*                                                                         *)
(* Strings that the program measures (converted text) are sequences of     *)
(* Unicode code points; strings it only passes around (names, messages)    *)
(* are TLA+ strings.                                                       *)
(***************************************************************************)
EXTENDS Integers, Sequences, FiniteSets, TLC

VARIABLES
    conversion_stats,   \* st.session_state.conversion_stats: the ledger (a list of dicts)
    uploaded_files,     \* the value of st.file_uploader: the current batch
    pc,                 \* where main() is: "idle", "loop", "pf_create", "pf_write",
                        \*   "pf_convert", "pf_finally", "record", "display", "tab2", "aborted"
    i,                  \* position of the for loop of line 97 in uploaded_files (1-based)
    fs,                 \* the temporary files that exist on disk (paths)
    created,            \* number of temporary files created so far (paths are 1..created)
    removeLog,          \* the os.remove calls made so far, in order (paths)
    tmp_path,           \* process_file's local tmp_path (0: none)
    result,             \* what self.md.convert did in the current process_file call
    ret,                \* the value process_file returns: (success, content)
    errors,             \* the st.error messages shown by the current run of main()
    failedIdx,          \* positions of the current upload set whose conversion has failed
    runs,               \* number of runs of main() so far
    view,               \* what the first tab shows for the ledger (lines 122-133)
    report,             \* what the second tab shows for the ledger (lines 137-164)
    stats_at_start,     \* the ledger as it was when the current run of main() started
    p_in,               \* the arguments of a call of a pure helper taken in isolation
    p_out               \* the value that call returned

vars == <<conversion_stats, uploaded_files, pc, i, fs, created, removeLog,
          tmp_path, result, ret, errors, failedIdx, runs,
          view, report, stats_at_start, p_in, p_out>>

----------------------------------------------------------------------------
(* Bounds of the model *)

\* longest batch the upload widget holds
MaxBatch == 2

\* number of runs of main() explored in a session
MaxRuns == 2

----------------------------------------------------------------------------
(* Inputs *)

UploadedFile(n, s) == [name |-> n, size |-> s]

\* The files the user may drop onto the uploader.  Two of them share a name
\* and differ in their bytes (here: in their length); one is empty.
UploadPool ==
    { UploadedFile("a.pdf", 0), UploadedFile("a.pdf", 3), UploadedFile("b.docx", 2) }

RECURSIVE SeqsUpTo(_, _)
SeqsUpTo(S, n) ==
    IF n = 0 THEN { <<>> }
    ELSE LET shorter == SeqsUpTo(S, n - 1)
         IN  shorter \cup { Append(q, x) : q \in shorter, x \in S }

\* accept_multiple_files=True: a batch is any list of files, possibly empty,
\* possibly repeating a name
Batches == SeqsUpTo(UploadPool, MaxBatch)

\* Converted texts the engine may produce, as code points:
\* "" , "hi" , and "e-acute, euro sign" (2 + 3 bytes in UTF-8)
Texts == { <<>>, <<104, 105>>, <<233, 8364>> }

NoOutcome == [kind |-> "unset", text |-> <<>>, exc |-> "", msg |-> ""]

\* What self.md.convert(tmp_path) may do: return a result carrying text
\* (possibly ""), return a result whose text_content is None, return None,
\* or raise an Exception of some class with some message.
EngineOutcomes ==
    { [kind |-> "result", text |-> t, exc |-> "", msg |-> ""] : t \in Texts }
    \cup { [kind |-> "absent", text |-> <<>>, exc |-> "", msg |-> ""],
           [kind |-> "none",   text |-> <<>>, exc |-> "", msg |-> ""],
           [kind |-> "raise",  text |-> <<>>, exc |-> "ValueError", msg |-> "File is corrupt"],
           [kind |-> "raise",  text |-> <<>>, exc |-> "KeyError",   msg |-> "sheet1"] }

----------------------------------------------------------------------------
(* Pure helpers *)

\* str(e) for an exception built with one argument: the argument itself,
\* except for KeyError, whose __str__ is the repr of the key
Str(exc, msg) == IF exc = "KeyError" THEN "'" \o msg \o "'" ELSE msg

\* number of bytes of one code point in UTF-8
Utf8Bytes(cp) ==
    IF cp < 128 THEN 1 ELSE IF cp < 2048 THEN 2 ELSE IF cp < 65536 THEN 3 ELSE 4

\* len(content.encode('utf-8'))
RECURSIVE Utf8Len(_)
Utf8Len(text) ==
    IF text = <<>> THEN 0 ELSE Utf8Bytes(Head(text)) + Utf8Len(Tail(text))

\* the message of line 60
EmptyResultMessage == "Conversion yielded empty result."

\* the st.error text of line 119 (without its leading warning sign)
ErrorMessage(name, content) ==
    "Could not read [" \o name \o "]. Error: " \o content

\* Faulty variant of already_processed: the dedup check never finds the name
already_processed_never(name) == FALSE

\* line 100: any(s['name'] == uploaded_file.name for s in conversion_stats)
already_processed(name) ==
    \E k \in 1..Len(conversion_stats) : conversion_stats[k].name = name

NoReturn == [success |-> FALSE, text |-> <<>>, error |-> ""]

\* Faulty variant of Outcome: the emptiness test of lines 59-60 is missing, so
\* an empty text is returned as a success (a result of None still fails, on
\* the attribute access)
Outcome_NoEmptyCheck(o) ==
    IF o.kind = "raise"
    THEN [success |-> FALSE, text |-> <<>>, error |-> Str(o.exc, o.msg)]
    ELSE IF o.kind = "none"
    THEN [success |-> FALSE, text |-> <<>>,
          error |-> "'NoneType' object has no attribute 'text_content'"]
    ELSE [success |-> TRUE, text |-> o.text, error |-> ""]

\* Faulty variant of Outcome: the message of the exception is wrapped
Outcome_WrapsMessage(o) ==
    IF o.kind = "raise"
    THEN [success |-> FALSE, text |-> <<>>,
          error |-> "Conversion failed: " \o Str(o.exc, o.msg)]
    ELSE IF o.kind = "none" \/ o.kind = "absent" \/ o.text = <<>>
    THEN [success |-> FALSE, text |-> <<>>, error |-> Str("ValueError", EmptyResultMessage)]
    ELSE [success |-> TRUE, text |-> o.text, error |-> ""]

\* lines 57-64: the value process_file returns for an engine outcome.
\* (True, text) is [success |-> TRUE, text |-> ...]; (False, str(e)) is
\* [success |-> FALSE, error |-> ...].
Outcome(o) ==
    IF o.kind = "raise"
    THEN [success |-> FALSE, text |-> <<>>, error |-> Str(o.exc, o.msg)]
    ELSE IF o.kind = "none" \/ o.kind = "absent" \/ o.text = <<>>
    THEN [success |-> FALSE, text |-> <<>>, error |-> Str("ValueError", EmptyResultMessage)]
    ELSE [success |-> TRUE, text |-> o.text, error |-> ""]

\* Faulty variant of StatsEntry: the converted size is len(content), the
\* number of characters, instead of the length of the UTF-8 encoding
StatsEntry_CharCount(f, content) ==
    [name |-> f.name, original_size |-> f.size,
     converted_size |-> Len(content), content |-> content]

\* lines 108-117: the dict appended to the ledger
StatsEntry(f, content) ==
    [name |-> f.name, original_size |-> f.size,
     converted_size |-> Utf8Len(content), content |-> content]

----------------------------------------------------------------------------
(* The size report.                                                        *)
(*                                                                         *)
(* A byte count handed to format_size is a Python int, which has no upper  *)
(* limit.  It is written here in base 1024, least significant digit first  *)
(* (1536 is <<512, 1>>), so that the division by 1024.0 is a shift of the  *)
(* digits and no intermediate value leaves the range of the integers of    *)
(* TLC.  The byte counts considered are below 2^53, where the              *)
(* conversion of an int to a float and each division by 1024.0 are exact.  *)

\* the base-1024 digits of a small natural number
RECURSIVE Digits1024(_)
Digits1024(n) ==
    IF n < 1024 THEN <<n>> ELSE <<n % 1024>> \o Digits1024(n \div 1024)

\* the integer part of size / 1024^k
RECURSIVE IntPart(_, _)
IntPart(d, k) ==
    IF Len(d) <= k THEN 0
    ELSE d[k + 1] + 1024 * IntPart(d, k + 1)

\* the k digits of the fractional part of size / 1024^k
FracDigits(d, k) == [j \in 1..k |-> IF j <= Len(d) THEN d[j] ELSE 0]

\* 100 * (fraction f), digit by digit: the carry out of the top digit is the
\* integer part of the product, rest are the digits of its fractional part
RECURSIVE Mul100(_, _, _, _)
Mul100(f, j, c, acc) ==
    IF j > Len(f) THEN [carry |-> c, rest |-> acc]
    ELSE LET t == 100 * f[j] + c
         IN  Mul100(f, j + 1, t \div 1024, Append(acc, t % 1024))

\* the fraction with digits r compared with one half: -1 below, 0 equal, 1 above
CompareHalf(r) ==
    IF Len(r) = 0 THEN -1
    ELSE IF r[Len(r)] > 512 THEN 1
    ELSE IF r[Len(r)] < 512 THEN -1
    ELSE IF \E j \in 1..(Len(r) - 1) : r[j] # 0 THEN 1 ELSE 0

\* size / 1024^k in hundredths, as the format specification .2f rounds it:
\* to the nearest hundredth, an exact half to the even neighbour
Hundredths(d, k) ==
    LET m    == Mul100(FracDigits(d, k), 1, 0, <<>>)
        low  == 100 * IntPart(d, k) + m.carry
        half == CompareHalf(m.rest)
    IN  IF half = 1 \/ (half = 0 /\ low % 2 = 1) THEN low + 1 ELSE low

\* f"{x:.2f}" for x given in hundredths
Fixed2(h) ==
    ToString(h \div 100) \o "." \o (IF h % 100 < 10 THEN "0" ELSE "") \o ToString(h % 100)

\* Faulty variant of Below1024: the comparison of line 36 is <= instead of <
Below1024_Inclusive(d, k) ==
    \/ Len(d) - k <= 1
    \/ /\ Len(d) - k = 2
       /\ d[Len(d)] = 1
       /\ \A j \in 1..(Len(d) - 1) : d[j] = 0

\* line 36: size_in_bytes < 1024.0, for size_in_bytes = size / 1024^k: the
\* integer part has a single base-1024 digit
Below1024(d, k) == Len(d) - k <= 1

\* the units of line 35, in the order the loop visits them
Units == <<"B", "KB", "MB", "GB">>

\* lines 35-39: the loop over the units, k divisions by 1024.0 done so far;
\* yields the value printed (in hundredths) and the unit
RECURSIVE FormatLoop(_, _)
FormatLoop(d, k) ==
    IF k = Len(Units) THEN [hundredths |-> Hundredths(d, k), unit |-> "TB"]
    ELSE IF Below1024(d, k) THEN [hundredths |-> Hundredths(d, k), unit |-> Units[k + 1]]
    ELSE FormatLoop(d, k + 1)

\* lines 34-39: format_size
format_size(d) ==
    LET r == FormatLoop(d, 0) IN Fixed2(r.hundredths) \o " " \o r.unit

\* n / d rounded to the nearest integer (n >= 0, d > 0, no exact half)
RoundDiv(n, d) == (2 * n + d) \div (2 * d)

\* f"{x:.1f}" for x given by its sign and its absolute value in tenths
Fixed1(negative, t) ==
    (IF negative THEN "-" ELSE "") \o ToString(t \div 10) \o "." \o ToString(t % 10)

\* Faulty variant of Reduction: an empty original counts as fully reduced
Reduction_EmptyAsFull(original_size, converted_size) ==
    IF original_size > 0
    THEN [reduction_str |->
              Fixed1(original_size < converted_size,
                     RoundDiv(1000 * (IF original_size < converted_size
                                      THEN converted_size - original_size
                                      ELSE original_size - converted_size),
                              original_size)) \o "% smaller",
          color_class |-> IF original_size - converted_size > 0
                          THEN "highlight-green" ELSE "highlight-red"]
    ELSE [reduction_str |-> "100.0% smaller", color_class |-> "highlight-green"]

\* Faulty variant of Reduction: the test of line 150 is >= instead of >
Reduction_ZeroIsGreen(original_size, converted_size) ==
    IF original_size > 0
    THEN [reduction_str |->
              Fixed1(original_size < converted_size,
                     RoundDiv(1000 * (IF original_size < converted_size
                                      THEN converted_size - original_size
                                      ELSE original_size - converted_size),
                              original_size)) \o "% smaller",
          color_class |-> IF original_size - converted_size >= 0
                          THEN "highlight-green" ELSE "highlight-red"]
    ELSE [reduction_str |-> "N/A", color_class |-> ""]

\* lines 147-153: the reduction and its colour.  The quotient is positive
\* exactly when the difference is, and it is printed with one decimal.
Reduction(original_size, converted_size) ==
    IF original_size > 0
    THEN [reduction_str |->
              Fixed1(original_size < converted_size,
                     RoundDiv(1000 * (IF original_size < converted_size
                                      THEN converted_size - original_size
                                      ELSE original_size - converted_size),
                              original_size)) \o "% smaller",
          color_class |-> IF original_size - converted_size > 0
                          THEN "highlight-green" ELSE "highlight-red"]
    ELSE [reduction_str |-> "N/A", color_class |-> ""]

\* lines 142-153: the row of the second tab for one ledger entry
ReportRow(item) ==
    [name |-> item.name,
     orig_fmt |-> format_size(Digits1024(item.original_size)),
     new_fmt |-> format_size(Digits1024(item.converted_size)),
     reduction_str |-> Reduction(item.original_size, item.converted_size).reduction_str,
     color_class |-> Reduction(item.original_size, item.converted_size).color_class]

\* os.path.splitext(name)[0] for the names of UploadPool
BaseName(name) == IF name = "a.pdf" THEN "a" ELSE IF name = "b.docx" THEN "b" ELSE name

\* lines 124-133: the expander of the first tab for one ledger entry
ResultView(item) ==
    [title |-> "Result: " \o item.name,
     preview |-> item.content,
     md |-> [file_name |-> BaseName(item.name) \o ".md", data |-> item.content],
     txt |-> [file_name |-> BaseName(item.name) \o ".txt", data |-> item.content]]

----------------------------------------------------------------------------
(* The session *)

Resting == pc \in {"idle", "aborted"}

\* no call of a pure helper is being looked at
NoCall == [fn |-> "none", size |-> <<0>>, original_size |-> 0, converted_size |-> 0]

NoOut == [done |-> FALSE, text |-> "", unit |-> "", hundredths |-> 0, color_class |-> ""]

\* lines 75-76: a fresh session, before the first upload
SessionInit ==
    /\ conversion_stats = <<>>
    /\ uploaded_files = <<>>
    /\ pc = "idle"
    /\ i = 0
    /\ fs = {}
    /\ created = 0
    /\ removeLog = <<>>
    /\ tmp_path = 0
    /\ result = NoOutcome
    /\ ret = NoReturn
    /\ errors = <<>>
    /\ failedIdx = {}
    /\ runs = 0
    /\ view = <<>>
    /\ report = <<>>
    /\ stats_at_start = <<>>

Init ==
    /\ SessionInit
    /\ p_in = NoCall
    /\ p_out = NoOut

\* Faulty variant of StartMain: the reset of line 95 is active, so every run
\* over a non-empty batch starts from an empty ledger
StartMain_ResetStats ==
    /\ runs' = runs + 1
    /\ errors' = <<>>
    /\ i' = 1
    /\ pc' = IF uploaded_files' # <<>> THEN "loop" ELSE "tab2"
    /\ conversion_stats' = IF uploaded_files' # <<>> THEN <<>> ELSE conversion_stats
    /\ view' = <<>>
    /\ report' = <<>>
    /\ stats_at_start' = conversion_stats'
    /\ UNCHANGED <<fs, created, removeLog, tmp_path, result, ret, p_in, p_out>>

\* lines 71-91: main() starts; with a non-empty batch it enters the loop of
\* line 97, otherwise it goes straight to the second tab
StartMain ==
    /\ runs' = runs + 1
    /\ errors' = <<>>
    /\ i' = 1
    /\ pc' = IF uploaded_files' # <<>> THEN "loop" ELSE "tab2"
    /\ view' = <<>>
    /\ report' = <<>>
    /\ stats_at_start' = conversion_stats
    /\ UNCHANGED <<conversion_stats, fs, created, removeLog, tmp_path, result, ret,
                   p_in, p_out>>

\* the user changes the content of the uploader: main() reruns on the new batch
Submit(batch) ==
    /\ Resting
    /\ runs < MaxRuns
    /\ uploaded_files' = batch
    /\ failedIdx' = {}
    /\ StartMain

\* any other interaction (a tab click, a refresh): main() reruns on the same batch
Rerun ==
    /\ Resting
    /\ runs < MaxRuns
    /\ UNCHANGED <<uploaded_files, failedIdx>>
    /\ StartMain

\* Faulty variant of LoopStep: the guard of line 102 is missing, so every file
\* of the batch is handed to process_file
LoopStep_NoSkip ==
    /\ pc = "loop"
    /\ IF i > Len(uploaded_files)
       THEN pc' = "display"
       ELSE pc' = "pf_create"
    /\ UNCHANGED <<conversion_stats, uploaded_files, i, fs, created, removeLog,
                   tmp_path, result, ret, errors, failedIdx, runs>>
    /\ UNCHANGED <<view, report, stats_at_start, p_in, p_out>>

\* lines 97-104: the next file of the batch; skipped when its name is in the
\* ledger, handed to process_file otherwise; after the last file, line 122
LoopStep ==
    /\ pc = "loop"
    /\ IF i > Len(uploaded_files)
       THEN /\ pc' = "display"
            /\ UNCHANGED i
       ELSE IF already_processed(uploaded_files[i].name)
       THEN /\ pc' = "loop"
            /\ i' = i + 1
       ELSE /\ pc' = "pf_create"
            /\ UNCHANGED i
    /\ UNCHANGED <<conversion_stats, uploaded_files, fs, created, removeLog,
                   tmp_path, result, ret, errors, failedIdx, runs>>
    /\ UNCHANGED <<view, report, stats_at_start, p_in, p_out>>

\* lines 51-53: NamedTemporaryFile(delete=False) creates a fresh file
PF_Create ==
    /\ pc = "pf_create"
    /\ created' = created + 1
    /\ fs' = fs \cup {created + 1}
    /\ tmp_path' = created + 1
    /\ pc' = "pf_write"
    /\ UNCHANGED <<conversion_stats, uploaded_files, i, removeLog, result, ret,
                   errors, failedIdx, runs>>
    /\ UNCHANGED <<view, report, stats_at_start, p_in, p_out>>

\* lines 54-55, the write succeeds: the with block closes the file and the
\* try statement is entered
PF_WriteOk ==
    /\ pc = "pf_write"
    /\ pc' = "pf_convert"
    /\ UNCHANGED <<conversion_stats, uploaded_files, i, fs, created, removeLog,
                   tmp_path, result, ret, errors, failedIdx, runs>>
    /\ UNCHANGED <<view, report, stats_at_start, p_in, p_out>>

\* line 54, the write raises (disk full, quota): the with block closes the
\* file, which delete=False keeps on disk, and the exception leaves
\* process_file and main() before the try statement of line 57 is entered
PF_WriteFault ==
    /\ pc = "pf_write"
    /\ pc' = "aborted"
    /\ tmp_path' = 0
    /\ UNCHANGED <<conversion_stats, uploaded_files, i, fs, created, removeLog,
                   result, ret, errors, failedIdx, runs>>
    /\ UNCHANGED <<view, report, stats_at_start, p_in, p_out>>

\* Faulty variant of PF_Convert: there is no except clause, so an exception of
\* the engine runs the finally clause and then leaves process_file and main()
PF_Convert_Uncaught ==
    /\ pc = "pf_convert"
    /\ \E o \in EngineOutcomes :
          /\ result' = o
          /\ ret' = Outcome(o)
          /\ IF o.kind = "raise"
             THEN /\ fs' = fs \ {tmp_path}
                  /\ removeLog' = Append(removeLog, tmp_path)
                  /\ tmp_path' = 0
                  /\ pc' = "aborted"
             ELSE /\ pc' = "pf_finally"
                  /\ UNCHANGED <<fs, removeLog, tmp_path>>
    /\ UNCHANGED <<conversion_stats, uploaded_files, i, created, errors, failedIdx, runs>>
    /\ UNCHANGED <<view, report, stats_at_start, p_in, p_out>>

\* lines 57-64: the engine is called; its outcome decides the return value
PF_Convert ==
    /\ pc = "pf_convert"
    /\ \E o \in EngineOutcomes :
          /\ result' = o
          /\ ret' = Outcome(o)
    /\ pc' = "pf_finally"
    /\ UNCHANGED <<conversion_stats, uploaded_files, i, fs, created, removeLog,
                   tmp_path, errors, failedIdx, runs>>
    /\ UNCHANGED <<view, report, stats_at_start, p_in, p_out>>

\* Faulty variant of PF_Finally: the file is removed on the success path only
\* (the removal sits after the conversion instead of in a finally clause)
PF_Finally_SuccessOnly ==
    /\ pc = "pf_finally"
    /\ IF tmp_path \in fs /\ ret.success
       THEN /\ fs' = fs \ {tmp_path}
            /\ removeLog' = Append(removeLog, tmp_path)
       ELSE UNCHANGED <<fs, removeLog>>
    /\ tmp_path' = 0
    /\ pc' = "record"
    /\ UNCHANGED <<conversion_stats, uploaded_files, i, created, result, ret,
                   errors, failedIdx, runs>>
    /\ UNCHANGED <<view, report, stats_at_start, p_in, p_out>>

\* lines 66-68: the finally clause, then the return to main()
PF_Finally ==
    /\ pc = "pf_finally"
    /\ IF tmp_path \in fs
       THEN /\ fs' = fs \ {tmp_path}
            /\ removeLog' = Append(removeLog, tmp_path)
       ELSE UNCHANGED <<fs, removeLog>>
    /\ tmp_path' = 0
    /\ pc' = "record"
    /\ UNCHANGED <<conversion_stats, uploaded_files, i, created, result, ret,
                   errors, failedIdx, runs>>
    /\ UNCHANGED <<view, report, stats_at_start, p_in, p_out>>

\* Faulty variant of RecordOutcome: the entry is appended before the success
\* flag is looked at, so a failure is recorded as well as shown
RecordOutcome_AppendAlways ==
    /\ pc = "record"
    /\ conversion_stats' =
          Append(conversion_stats, StatsEntry(uploaded_files[i], ret.text))
    /\ IF ret.success
       THEN UNCHANGED <<errors, failedIdx>>
       ELSE /\ errors' = Append(errors, ErrorMessage(uploaded_files[i].name, ret.error))
            /\ failedIdx' = failedIdx \cup {i}
    /\ i' = i + 1
    /\ result' = NoOutcome
    /\ ret' = NoReturn
    /\ pc' = "loop"
    /\ UNCHANGED <<uploaded_files, fs, created, removeLog, tmp_path, runs>>
    /\ UNCHANGED <<view, report, stats_at_start, p_in, p_out>>

\* lines 106-119: a success is appended to the ledger, a failure is shown
RecordOutcome ==
    /\ pc = "record"
    /\ IF ret.success
       THEN /\ conversion_stats' =
                  Append(conversion_stats, StatsEntry(uploaded_files[i], ret.text))
            /\ UNCHANGED <<errors, failedIdx>>
       ELSE /\ errors' = Append(errors, ErrorMessage(uploaded_files[i].name, ret.error))
            /\ failedIdx' = failedIdx \cup {i}
            /\ UNCHANGED conversion_stats
    /\ i' = i + 1
    /\ result' = NoOutcome
    /\ ret' = NoReturn
    /\ pc' = "loop"
    /\ UNCHANGED <<uploaded_files, fs, created, removeLog, tmp_path, runs>>
    /\ UNCHANGED <<view, report, stats_at_start, p_in, p_out>>

\* Faulty variant of DisplayResults: the preview is cut to its first character
\* by rewriting the entry instead of a copy
DisplayResults_TruncatesEntries ==
    /\ pc = "display"
    /\ view' = [k \in 1..Len(conversion_stats) |-> ResultView(conversion_stats[k])]
    /\ conversion_stats' =
          [k \in 1..Len(conversion_stats) |->
              [conversion_stats[k] EXCEPT !.content = SubSeq(@, 1, 1)]]
    /\ pc' = "tab2"
    /\ UNCHANGED <<uploaded_files, i, fs, created, removeLog,
                   tmp_path, result, ret, errors, failedIdx, runs,
                   report, stats_at_start, p_in, p_out>>

\* lines 121-133: the converted-text view of every ledger entry (nothing is
\* shown for an empty ledger)
DisplayResults ==
    /\ pc = "display"
    /\ view' = [k \in 1..Len(conversion_stats) |-> ResultView(conversion_stats[k])]
    /\ pc' = "tab2"
    /\ UNCHANGED <<conversion_stats, uploaded_files, i, fs, created, removeLog,
                   tmp_path, result, ret, errors, failedIdx, runs,
                   report, stats_at_start, p_in, p_out>>

\* lines 136-164: the size comparison of every ledger entry (st.info for an
\* empty ledger); main() returns
SizeComparison ==
    /\ pc = "tab2"
    /\ report' = [k \in 1..Len(conversion_stats) |-> ReportRow(conversion_stats[k])]
    /\ pc' = "idle"
    /\ UNCHANGED <<conversion_stats, uploaded_files, i, fs, created, removeLog,
                   tmp_path, result, ret, errors, failedIdx, runs,
                   view, stats_at_start, p_in, p_out>>

Next ==
    \/ \E batch \in Batches : Submit(batch)
    \/ Rerun
    \/ LoopStep
    \/ PF_Create
    \/ PF_WriteOk
    \/ PF_WriteFault
    \/ PF_Convert
    \/ PF_Finally
    \/ RecordOutcome
    \/ DisplayResults
    \/ SizeComparison

Spec == Init /\ [][Next]_vars

----------------------------------------------------------------------------
(* The pure helpers in isolation: one call per behaviour, on arguments    *)
(* drawn from the sets below.                                              *)

\* base-1024 digits the byte counts are built from
SizeDigits == {0, 1, 128, 384, 512, 1023}

\* most base-1024 digits of a byte count
MaxDigits == 6

\* the byte count is normalised (no leading zero digit) and below 2^53
ExactSize(d) ==
    /\ Len(d) >= 1
    /\ Len(d) > 1 => d[Len(d)] # 0
    /\ Len(d) <= 6
    /\ Len(d) = 6 => d[6] < 8

\* (a byte count of seven digits or more is not below 2^53)
FormatSizeArgs ==
    UNION { { d \in [1..n -> SizeDigits] : ExactSize(d) } :
                n \in 1..(IF MaxDigits < 6 THEN MaxDigits ELSE 6) }

\* sizes of the entries handed to the reduction
ReductionSizes == {0, 1, 2, 3, 5, 400, 1000, 1024, 1536, 100000, 100001}

\* 1000 * (o - c) / o does not fall on an exact half, where the digit printed
\* would hang on the rounding of the float product
NoExactHalf(o, c) == o > 0 => (2000 * (IF o < c THEN c - o ELSE o - c)) % (2 * o) # o

PureInputs ==
    { [fn |-> "format_size", size |-> d, original_size |-> 0, converted_size |-> 0] :
          d \in FormatSizeArgs }
    \cup { [fn |-> "reduction", size |-> <<0>>, original_size |-> o, converted_size |-> c] :
          <<o, c>> \in { q \in ReductionSizes \X ReductionSizes : NoExactHalf(q[1], q[2]) } }

PureInit ==
    /\ SessionInit
    /\ p_in \in PureInputs
    /\ p_out = NoOut

\* lines 34-39: one call of format_size
CallFormatSize ==
    /\ p_in.fn = "format_size"
    /\ ~p_out.done
    /\ p_out' = [done |-> TRUE,
                 text |-> format_size(p_in.size),
                 unit |-> FormatLoop(p_in.size, 0).unit,
                 hundredths |-> FormatLoop(p_in.size, 0).hundredths,
                 color_class |-> ""]
    /\ UNCHANGED <<conversion_stats, uploaded_files, pc, i, fs, created, removeLog,
                   tmp_path, result, ret, errors, failedIdx, runs,
                   view, report, stats_at_start, p_in>>

\* lines 147-153: the reduction of one entry
CallReduction ==
    /\ p_in.fn = "reduction"
    /\ ~p_out.done
    /\ p_out' = [done |-> TRUE,
                 text |-> Reduction(p_in.original_size, p_in.converted_size).reduction_str,
                 unit |-> "",
                 hundredths |-> 0,
                 color_class |-> Reduction(p_in.original_size, p_in.converted_size).color_class]
    /\ UNCHANGED <<conversion_stats, uploaded_files, pc, i, fs, created, removeLog,
                   tmp_path, result, ret, errors, failedIdx, runs,
                   view, report, stats_at_start, p_in>>

PureNext ==
    \/ CallFormatSize
    \/ CallReduction

SpecPure == PureInit /\ [][PureNext]_vars

----------------------------------------------------------------------------
(* Vocabulary of the properties *)

\* the names the ledger holds
LedgerNames == { conversion_stats[k].name : k \in 1..Len(conversion_stats) }

\* main() is inside a call of process_file, or holds its return value
InProcessFile == pc \in {"pf_create", "pf_write", "pf_convert", "pf_finally", "record"}

\* a run of main() has ended, by returning or by an uncaught exception
RunEnded == runs > 0 /\ pc \in {"idle", "aborted"}

\* the engine outcomes that are failures
EngineFailed(o) == o.kind \in {"raise", "none", "absent"} \/ (o.kind = "result" /\ o.text = <<>>)

\* number of os.remove calls made on a path
Removals(p) == Cardinality({ k \in 1..Len(removeLog) : removeLog[k] = p })

\* the reasons a per-file error message may carry
Reasons == { Outcome(o).error : o \in { e \in EngineOutcomes : EngineFailed(e) } }

\* an error message of the current run names the file
Reported(name) ==
    \E k \in 1..Len(errors) : \E r \in Reasons : errors[k] = ErrorMessage(name, r)

IsPrefix(s, t) == Len(s) <= Len(t) /\ SubSeq(t, 1, Len(s)) = s

----------------------------------------------------------------------------
(* Properties *)

\* C1: in every reachable state the ledger holds at most one entry per
\* distinct file name, whatever batches were submitted and rerun.
C1_UniqueNames ==
    \A j, k \in 1..Len(conversion_stats) :
        conversion_stats[j].name = conversion_stats[k].name => j = k

\* a batch that repeats a name has been run through and the name is recorded
C1_Witness ==
    /\ pc = "display"
    /\ Len(uploaded_files) = 2
    /\ uploaded_files[1].name = uploaded_files[2].name
    /\ uploaded_files[1].name \in LedgerNames

\* C2: a file whose name is already in the ledger is never handed to
\* process_file (no temporary file is created, the engine is not called),
\* and the step that skips it leaves the ledger unchanged.
C2_IdempotentDedup ==
    /\ [](InProcessFile /\ pc # "record" => uploaded_files[i].name \notin LedgerNames)
    /\ [][ (pc = "loop" /\ i <= Len(uploaded_files)
              /\ uploaded_files[i].name \in LedgerNames)
           => /\ pc' = "loop"
              /\ i' = i + 1
              /\ conversion_stats' = conversion_stats
              /\ created' = created
              /\ fs' = fs
              /\ result' = result ]_vars

\* a later batch resubmitted a recorded name with other bytes; the run went
\* through it without a second conversion call
C2_Witness ==
    /\ runs = 2
    /\ pc = "display"
    /\ Len(uploaded_files) = 1
    /\ Len(conversion_stats) = 1
    /\ conversion_stats[1].name = uploaded_files[1].name
    /\ conversion_stats[1].original_size # uploaded_files[1].size
    /\ created = 1

\* C3: the ledger changes only by the recording of a process_file call that
\* returned success on a non-empty engine result; a call that ended in
\* Failure (engine raised, no result, empty or absent text) adds nothing.
C3_FailureNonPersistence ==
    /\ [][ conversion_stats' # conversion_stats
           => /\ pc = "record"
              /\ ret.success
              /\ ~EngineFailed(result)
              /\ conversion_stats' =
                    Append(conversion_stats, StatsEntry(uploaded_files[i], result.text)) ]_vars
    /\ [][ (pc = "record" /\ EngineFailed(result))
           => conversion_stats' = conversion_stats ]_vars

\* a failure has just been reported and its file is not in the ledger
C3_Witness ==
    /\ pc = "loop"
    /\ i = 2
    /\ errors # <<>>
    /\ uploaded_files[1].name \notin LedgerNames
    /\ conversion_stats # <<>>

\* C4: whatever the engine did (success, exception, no result, empty text),
\* when process_file returns the temporary file it created has been removed
\* exactly once and no longer exists; no file is ever removed twice, and only
\* created files are removed.
C4_CleanupInvariant ==
    /\ \A p \in 1..created : Removals(p) <= 1
    /\ \A k \in 1..Len(removeLog) : removeLog[k] \in 1..created /\ removeLog[k] \notin fs
    /\ pc = "record" => /\ created \notin fs
                        /\ Removals(created) = 1

\* the second call of process_file has returned after a failure of the
\* engine, and both temporary files have been removed once
C4_Witness ==
    /\ pc = "record"
    /\ EngineFailed(result)
    /\ created = 2
    /\ removeLog = <<1, 2>>
    /\ fs = {}

\* C5: release runs on every exit path of process_file, a fault while the
\* bytes are written into the temporary file included: outside a call of
\* process_file no temporary file exists.
C5_ReleaseOnEveryExit ==
    (~InProcessFile \/ pc = "record") => fs = {}

\* C6: after the engine has been called, whatever it did, process_file
\* returns to main() (the run is not aborted), and an engine failure is
\* returned as (False, reason).
C6_FailuresCaught ==
    /\ [][ pc = "pf_convert" => pc' = "pf_finally" ]_vars
    /\ [][ pc = "pf_finally" => pc' = "record" ]_vars
    /\ [](pc \in {"pf_finally", "record"} /\ EngineFailed(result)
            => ~ret.success /\ ret.text = <<>> /\ ret.error \in Reasons)

\* process_file has returned a Failure for an exception of the engine
C6_Witness ==
    /\ pc = "record"
    /\ result.kind = "raise"
    /\ ~ret.success

\* C7: for no result, or a result whose text is empty, process_file returns
\* Failure with exactly "Conversion yielded empty result.", and it never
\* returns Success with an empty text.
C7_EmptyResultRejection ==
    /\ (pc \in {"pf_finally", "record"}
          /\ (result.kind = "none" \/ (result.kind = "result" /\ result.text = <<>>)))
       => /\ ~ret.success
          /\ ret.error = "Conversion yielded empty result."
    /\ (pc \in {"pf_finally", "record"} /\ ret.success) => ret.text # <<>>

\* process_file has returned for an engine result with empty text
C7_Witness ==
    /\ pc = "record"
    /\ result.kind = "result"
    /\ result.text = <<>>

\* C8: when a run of main() over a batch ends, every file of the batch is in
\* the ledger or has been reported by an error message naming it.
C8_BatchContinuation ==
    RunEnded => \A k \in 1..Len(uploaded_files) :
                    \/ uploaded_files[k].name \in LedgerNames
                    \/ Reported(uploaded_files[k].name)

\* C9: a file whose conversion has failed is not handed to process_file
\* again as long as the upload set is unchanged.
C9_NoAutomaticRetry ==
    pc = "pf_create" => i \notin failedIdx

\* C10: every step leaves the ledger as it is or appends one entry at its
\* end: the earlier ledger is a prefix of the later one.
C10_AppendOnly ==
    [][ /\ IsPrefix(conversion_stats, conversion_stats')
        /\ Len(conversion_stats') <= Len(conversion_stats) + 1 ]_vars

\* a file with a recorded name and other bytes has been run through, and the
\* first entry is still the one of the first success
C10_Witness ==
    /\ runs = 2
    /\ pc = "display"
    /\ Len(conversion_stats) = 2
    /\ \E k \in 1..Len(uploaded_files) :
          /\ uploaded_files[k].name = conversion_stats[1].name
          /\ uploaded_files[k].size # conversion_stats[1].original_size

\* the number of times a byte count can be divided by 1024 while staying >= 1
RECURSIVE DivCount(_)
DivCount(d) == IF Len(d) <= 1 THEN 0 ELSE 1 + DivCount(Tail(d))

AllUnits == <<"B", "KB", "MB", "GB", "TB">>

Min(a, b) == IF a < b THEN a ELSE b

FormatSizeReturned == p_out.done /\ p_in.fn = "format_size"

ReductionReturned == p_out.done /\ p_in.fn = "reduction"

\* C11: format_size(n) carries the unit of index min(4, number of times n
\* can be divided by 1024 while staying >= 1) in B, KB, MB, GB, TB, prints
\* the value with two decimals, and gives "0.00 B" for 0, "1.00 KB" for 1024,
\* "1.50 KB" for 1536, "1.00 TB" for 1024^4, and TB for every n >= 1024^5.
C11_FormatSize ==
    FormatSizeReturned =>
        /\ p_out.unit = AllUnits[Min(4, DivCount(p_in.size)) + 1]
        /\ p_out.text = Fixed2(p_out.hundredths) \o " " \o p_out.unit
        /\ p_in.size = <<0>> => p_out.text = "0.00 B"
        /\ p_in.size = <<0, 1>> => p_out.text = "1.00 KB"
        /\ p_in.size = <<512, 1>> => p_out.text = "1.50 KB"
        /\ p_in.size = <<0, 0, 0, 0, 1>> => p_out.text = "1.00 TB"
        /\ Len(p_in.size) >= 6 => p_out.unit = "TB"

\* format_size has returned for 1024^5
C11_Witness ==
    /\ FormatSizeReturned
    /\ p_in.size = <<0, 0, 0, 0, 0, 1>>
    /\ p_out.text = "1024.00 TB"

\* C12: the row of the size comparison for a ledger entry whose
\* original_size is 0 carries the reduction "N/A" and no improvement colour.
C12_ReductionEdgeCase ==
    \A k \in 1..Len(report) :
        conversion_stats[k].original_size = 0
        => /\ report[k].reduction_str = "N/A"
           /\ report[k].color_class = ""

\* the size comparison has been shown for an entry converted from an empty upload
C12_Witness ==
    /\ pc = "idle"
    /\ \E k \in 1..Len(report) :
          /\ conversion_stats[k].original_size = 0
          /\ report[k].name = conversion_stats[k].name
          /\ report[k].orig_fmt = "0.00 B"

\* C13: for original_size > 0 the entry is coloured as an improvement exactly
\* when converted_size < original_size; equal sizes and growth are coloured
\* as no improvement; 1000 -> 400 gives "60.0% smaller" and an improvement,
\* 400 -> 1000 a negative reduction and no improvement.
C13_ReductionSign ==
    (ReductionReturned /\ p_in.original_size > 0) =>
        /\ p_out.color_class = "highlight-green" <=> p_in.converted_size < p_in.original_size
        /\ p_in.converted_size >= p_in.original_size => p_out.color_class = "highlight-red"
        /\ (p_in.original_size = 1000 /\ p_in.converted_size = 400)
              => p_out.text = "60.0% smaller"
        /\ (p_in.original_size = 400 /\ p_in.converted_size = 1000)
              => p_out.text = "-150.0% smaller"

\* the reduction has been computed for equal sizes
C13_Witness ==
    /\ ReductionReturned
    /\ p_in.original_size = 1000
    /\ p_in.converted_size = 1000
    /\ p_out.text = "0.0% smaller"

\* C14: every ledger entry has non-empty text, a converted_size equal to
\* the UTF-8 length of that text (so at least 1), and the non-negative size
\* of an uploaded file of its name as original_size.
C14_EntryWellFormed ==
    \A k \in 1..Len(conversion_stats) :
        LET e == conversion_stats[k]
        IN  /\ e.content # <<>>
            /\ e.converted_size = Utf8Len(e.content)
            /\ e.converted_size >= 1
            /\ e.original_size >= 0
            /\ UploadedFile(e.name, e.original_size) \in UploadPool

\* an entry whose text takes more bytes than it has characters is recorded
C14_Witness ==
    \E k \in 1..Len(conversion_stats) :
        /\ conversion_stats[k].converted_size = 5
        /\ Len(conversion_stats[k].content) = 2

\* C15: when the engine raises, process_file returns (False, m) where m is
\* the text of the raised error as str gives it, with nothing added or
\* removed, and the error shown by main() names the file and carries m.
C15_MessagePassThrough ==
    /\ [](pc \in {"pf_finally", "record"} /\ result.kind = "raise"
            => /\ ~ret.success
               /\ ret.error = Str(result.exc, result.msg))
    /\ [][ (pc = "record" /\ result.kind = "raise")
           => errors' = Append(errors,
                  "Could not read [" \o uploaded_files[i].name \o "]. Error: "
                      \o Str(result.exc, result.msg)) ]_vars

\* the error of a file for which the engine raised has been shown
C15_Witness ==
    /\ pc = "loop"
    /\ errors = << "Could not read [b.docx]. Error: File is corrupt" >>

\* C16: the two views leave the ledger as it is, and a run of main() over a
\* batch without a file whose name was not yet recorded ends with the ledger
\* it started with.
C16_ViewsReadOnly ==
    /\ [][ (pc = "display" \/ pc = "tab2") => conversion_stats' = conversion_stats ]_vars
    /\ []( ( /\ pc = "idle"
             /\ runs > 0
             /\ \A k \in 1..Len(uploaded_files) :
                   \E j \in 1..Len(stats_at_start) :
                       stats_at_start[j].name = uploaded_files[k].name )
           => conversion_stats = stats_at_start )

\* a run over recorded names only has ended and both views were rendered
C16_Witness ==
    /\ pc = "idle"
    /\ runs = 2
    /\ uploaded_files # <<>>
    /\ \A k \in 1..Len(uploaded_files) : uploaded_files[k].name \in LedgerNames
    /\ stats_at_start = conversion_stats
    /\ Len(view) = Len(conversion_stats)
    /\ Len(report) = Len(conversion_stats)
    /\ created = 1

\* C17: at most one temporary file exists at any moment, it is the one of
\* the call of process_file in progress, and none exists when the ledger is
\* checked or appended to or when the run has ended.
C17_AtomicUnit ==
    /\ Cardinality(fs) <= 1
    /\ fs # {} => fs = {tmp_path}
    /\ (pc \in {"loop", "record"} \/ RunEnded) => fs = {}

====
